---- MODULE Spec2Model ----
(***************************************************************************)
(* Model of the tchannel v2 call-frame codec (src/v2/call.js): the lazy    *)
(* accessors over a frame with its offset cache, and the structured        *)
(* reader/writer of CallRequest and CallResponse bodies.                   *)
(***************************************************************************)
EXTENDS Integers, Sequences, FiniteSets, TLC

(***************************************************************************)
(* JavaScript values.  null is the empty tuple and a non-null value v is   *)
(* the one-element tuple <<v>>, so that a slot holding 0 or the empty      *)
(* string is distinguishable from a null slot, as it is in the source.     *)
(***************************************************************************)
Null == <<>>

Some(x) == <<x>>

\* JavaScript truthiness of an offset slot: null and 0 are both falsy.
FalsyNum(o) == o = Null \/ o = Some(0)

\* JavaScript truthiness of a string result: null and "" are both falsy.
FalsyStr(s) == s = Null \/ s = Some(<<>>)

\* A local variable: K applied to the value of x, x evaluated once.
Bind(x, K(_)) == CHOOSE y \in {K(v) : v \in {x}} : TRUE

(***************************************************************************)
(* Buffers are sequences of bytes; JavaScript offset o is index o + 1.     *)
(* A read outside the buffer raises a RangeError in Node (noAssert is      *)
(* false everywhere); the value is then irrelevant and the accessor's      *)
(* read set records the offending offset.                                  *)
(***************************************************************************)
readUInt8(buffer, offset) ==
    IF offset >= 0 /\ offset < Len(buffer) THEN buffer[offset + 1] ELSE 0

readUInt16BE(buffer, offset) ==
    readUInt8(buffer, offset) * 256 + readUInt8(buffer, offset + 1)

readUInt32BE(buffer, offset) ==
    readUInt8(buffer, offset) * 16777216 + readUInt8(buffer, offset + 1) * 65536
    + readUInt8(buffer, offset + 2) * 256 + readUInt8(buffer, offset + 3)

\* Bytes of buffer at offsets start .. end-1, end clamped to the buffer.
Slice(buffer, start, end) ==
    LET e == IF end > Len(buffer) THEN Len(buffer) ELSE end
    IN  IF start >= e THEN <<>> ELSE SubSeq(buffer, start + 1, e)

(***************************************************************************)
(* UTF-8.  Strings are sequences of code points.  Decoding maps one-, two- *)
(* and three-byte sequences to their code point and every other byte to    *)
(* U+FFFD, as Buffer.toString('utf8') does.                                *)
(***************************************************************************)
Replacement == 65533

IsCont(b) == b >= 128 /\ b < 192

RECURSIVE Utf8Decode(_)
Utf8Decode(bytes) ==
    IF bytes = <<>> THEN <<>>
    ELSE LET b == bytes[1] n == Len(bytes) IN
         IF b < 128 THEN <<b>> \o Utf8Decode(Tail(bytes))
         ELSE IF b >= 194 /\ b < 224 /\ n >= 2 /\ IsCont(bytes[2])
              THEN <<(b - 192) * 64 + (bytes[2] - 128)>>
                   \o Utf8Decode(SubSeq(bytes, 3, n))
         ELSE IF b >= 224 /\ b < 240 /\ n >= 3 /\ IsCont(bytes[2]) /\ IsCont(bytes[3])
                 /\ ((b - 224) * 4096 + (bytes[2] - 128) * 64 + (bytes[3] - 128)) >= 2048
              THEN <<(b - 224) * 4096 + (bytes[2] - 128) * 64 + (bytes[3] - 128)>>
                   \o Utf8Decode(SubSeq(bytes, 4, n))
         ELSE <<Replacement>> \o Utf8Decode(Tail(bytes))

RECURSIVE Utf8Encode(_)
Utf8Encode(str) ==
    IF str = <<>> THEN <<>>
    ELSE LET c == str[1] IN
         (IF c < 128 THEN <<c>>
          ELSE IF c < 2048 THEN <<192 + (c \div 64), 128 + (c % 64)>>
          ELSE <<224 + (c \div 4096), 128 + ((c \div 64) % 64), 128 + (c % 64)>>)
         \o Utf8Encode(Tail(str))

\* buf.toString('utf8', start, end)
fastBufferToString(buffer, start, end) == Utf8Decode(Slice(buffer, start, end))

(***************************************************************************)
(* Fixed offsets of the request body inside a frame.                       *)
(***************************************************************************)
FrameOverhead == 16

flagsOffset == FrameOverhead

ttlOffset == flagsOffset + 1

tracingOffset == ttlOffset + 4

TracingWidth == 25

serviceOffset == tracingOffset + TracingWidth

\* new Buffer('cn').readUInt16BE(0) and new Buffer('rd').readUInt16BE(0)
CN_VALUE == readUInt16BE(<<99, 110>>, 0)

RD_VALUE == readUInt16BE(<<114, 100>>, 0)

ChecksumNone == 0

\* Checksum.offsetWidth: the digest width of a checksum type.
ChecksumOffsetWidth(type) == IF type = ChecksumNone THEN 0 ELSE 4

FragmentFlag == 1

(***************************************************************************)
(* The offset cache of a frame, every slot null at construction.           *)
(***************************************************************************)
EmptyCache ==
    [ttlValue |-> Null, tracingValue |-> Null, serviceStr |-> Null,
     callerNameStr |-> Null, routingDelegateStr |-> Null, arg1Str |-> Null,
     headerStartOffset |-> Null, csumStartOffset |-> Null,
     cnValueOffset |-> Null, rdValueOffset |-> Null, lastError |-> Null]

\* The result of one lazy call: returned value, cache after, offsets read.
Ret(v, c, r) == [val |-> v, cache |-> c, reads |-> r]

TracingInfo(spanid, parentid, traceid, flags) ==
    [spanid |-> spanid, parentid |-> parentid, traceid |-> traceid, flags |-> flags]

(***************************************************************************)
(* Lazy accessors.  frame = [buffer, size, cache].                         *)
(***************************************************************************)
\* readTTL without the check of the ttl's end against frame.size.
readTTLNoSizeCheck(frame) ==
    IF frame.cache.ttlValue # Null
    THEN Ret(frame.cache.ttlValue[1], frame.cache, {})
    ELSE Bind(readUInt32BE(frame.buffer, ttlOffset), LAMBDA ttl :
         Ret(ttl, [frame.cache EXCEPT !.ttlValue = Some(ttl)],
             ttlOffset .. (ttlOffset + 3)))

readTTL(frame) ==
    IF frame.cache.ttlValue # Null
    THEN Ret(frame.cache.ttlValue[1], frame.cache, {})
    ELSE IF frame.size < ttlOffset + 4
    THEN Ret(0, frame.cache, {})
    ELSE Bind(readUInt32BE(frame.buffer, ttlOffset), LAMBDA ttl :
         Ret(ttl, [frame.cache EXCEPT !.ttlValue = Some(ttl)],
             ttlOffset .. (ttlOffset + 3)))

\* The 25 tracing bytes at offset as a TracingInfo.
TracingAt(b, offset) ==
    TracingInfo(<<readUInt32BE(b, offset), readUInt32BE(b, offset + 4)>>,
                <<readUInt32BE(b, offset + 8), readUInt32BE(b, offset + 12)>>,
                <<readUInt32BE(b, offset + 16), readUInt32BE(b, offset + 20)>>,
                readUInt8(b, offset + 24))

readTracingValue(frame) ==
    IF frame.cache.tracingValue # Null
    THEN Ret(frame.cache.tracingValue, frame.cache, {})
    ELSE IF frame.size < tracingOffset + 25
    THEN Ret(Null, frame.cache, {})
    ELSE Bind(TracingAt(frame.buffer, tracingOffset), LAMBDA tracing :
         Ret(Some(tracing), [frame.cache EXCEPT !.tracingValue = Some(tracing)],
             tracingOffset .. (tracingOffset + 24)))

\* findHeaderStartOffset that forgets the length byte itself.
findHeaderStartOffsetNoLengthByte(frame) ==
    IF ~FalsyNum(frame.cache.headerStartOffset)
    THEN Ret(frame.cache.headerStartOffset[1], frame.cache, {})
    ELSE IF frame.size < serviceOffset + 1
    THEN Ret(0, frame.cache, {})
    ELSE Bind(serviceOffset + readUInt8(frame.buffer, serviceOffset), LAMBDA offset :
         Ret(offset, [frame.cache EXCEPT !.headerStartOffset = Some(offset)],
             {serviceOffset}))

\* Returns [val: 0 or the offset, cache, reads].
findHeaderStartOffset(frame) ==
    IF ~FalsyNum(frame.cache.headerStartOffset)
    THEN Ret(frame.cache.headerStartOffset[1], frame.cache, {})
    ELSE IF frame.size < serviceOffset + 1
    THEN Ret(0, frame.cache, {})
    ELSE Bind(serviceOffset + readUInt8(frame.buffer, serviceOffset) + 1, LAMBDA offset :
         Ret(offset, [frame.cache EXCEPT !.headerStartOffset = Some(offset)],
             {serviceOffset}))

\* readServiceStr caching the slice that starts at the length byte.
readServiceStrCacheSkew(frame) ==
    IF frame.cache.serviceStr # Null
    THEN Ret(frame.cache.serviceStr, frame.cache, {})
    ELSE Bind(findHeaderStartOffset(frame), LAMBDA h :
         IF h.val = 0 THEN Ret(Null, h.cache, h.reads)
         ELSE IF frame.size < h.val THEN Ret(Null, h.cache, h.reads)
         ELSE Ret(Some(fastBufferToString(frame.buffer, serviceOffset + 1, h.val)),
                  [h.cache EXCEPT !.serviceStr =
                      Some(fastBufferToString(frame.buffer, serviceOffset, h.val))],
                  h.reads \cup (serviceOffset .. (h.val - 1))))

readServiceStr(frame) ==
    IF frame.cache.serviceStr # Null
    THEN Ret(frame.cache.serviceStr, frame.cache, {})
    ELSE Bind(findHeaderStartOffset(frame), LAMBDA h :
         IF h.val = 0 THEN Ret(Null, h.cache, h.reads)
         ELSE IF frame.size < h.val THEN Ret(Null, h.cache, h.reads)
         ELSE Bind(fastBufferToString(frame.buffer, serviceOffset + 1, h.val),
                   LAMBDA serviceNameStr :
              Ret(Some(serviceNameStr),
                  [h.cache EXCEPT !.serviceStr = Some(serviceNameStr)],
                  h.reads \cup ((serviceOffset + 1) .. (h.val - 1)))))

ScanFail(reads) == [ok |-> FALSE, offset |-> 0, cn |-> 0, rd |-> 0, reads |-> reads]

\* The key comparison of one loop iteration: the key starts at offset.
\* keyValue is read for "cn" when no cn offset is recorded yet, and (again,
\* should it have read as 0) for "rd" when no rd offset is recorded yet.
matchKey(frame, offset, keyLength, cnValueOffset, rdValueOffset) ==
    Bind(IF cnValueOffset = 0 /\ keyLength = 2
         THEN readUInt16BE(frame.buffer, offset) ELSE 0, LAMBDA keyValue1 :
    Bind(IF rdValueOffset = 0 /\ keyLength = 2 /\ keyValue1 = 0
         THEN readUInt16BE(frame.buffer, offset) ELSE keyValue1, LAMBDA keyValue2 :
        [cn |-> IF cnValueOffset = 0 /\ keyLength = 2 /\ keyValue1 = CN_VALUE
                THEN offset + keyLength ELSE cnValueOffset,
         rd |-> IF rdValueOffset = 0 /\ keyLength = 2 /\ keyValue2 = RD_VALUE
                THEN offset + keyLength ELSE rdValueOffset,
         reads |-> IF (cnValueOffset = 0 \/ rdValueOffset = 0) /\ keyLength = 2
                   THEN {offset, offset + 1} ELSE {}]))

\* The for loop of scanAndSkipHeaders, from iteration i with the locals given.
RECURSIVE scanLoop(_, _, _, _, _, _, _)
scanLoop(frame, i, nh, offset, cnValueOffset, rdValueOffset, reads) ==
    IF i >= nh
    THEN [ok |-> TRUE, offset |-> offset, cn |-> cnValueOffset,
          rd |-> rdValueOffset, reads |-> reads]
    ELSE IF frame.size < offset + 1 THEN ScanFail(reads)
    ELSE
    Bind(readUInt8(frame.buffer, offset), LAMBDA keyLength :
    IF frame.size < keyLength + offset + 1 THEN ScanFail(reads \cup {offset})
    ELSE
    Bind(matchKey(frame, offset + 1, keyLength, cnValueOffset, rdValueOffset), LAMBDA k :
    Bind(offset + 1 + keyLength, LAMBDA o2 :
    IF frame.size < o2 + 1 THEN ScanFail(reads \cup {offset} \cup k.reads)
    ELSE
    Bind(readUInt8(frame.buffer, o2), LAMBDA valueLength :
    IF frame.size < valueLength + o2 + 1
    THEN ScanFail(reads \cup {offset, o2} \cup k.reads)
    ELSE
    Bind(reads \cup {offset, o2} \cup k.reads, LAMBDA r :
        scanLoop(frame, i + 1, nh, o2 + 1 + valueLength, k.cn, k.rd, r))))))

\* scanAndSkipHeaders leaving the offset of an absent cn or rd unset.
scanAndSkipHeadersAbsentUnset(frame) ==
    Bind(findHeaderStartOffset(frame), LAMBDA h :
    IF h.val = 0 THEN Ret(FALSE, h.cache, h.reads)
    ELSE IF frame.size < h.val + 1 THEN Ret(FALSE, h.cache, h.reads)
    ELSE
    Bind(readUInt8(frame.buffer, h.val), LAMBDA nh :
    Bind(scanLoop(frame, 0, nh, h.val + 1, 0, 0, h.reads \cup {h.val}), LAMBDA s :
    IF ~s.ok THEN Ret(FALSE, h.cache, s.reads)
    ELSE Ret(TRUE,
             [h.cache EXCEPT !.cnValueOffset = IF s.cn = 0 THEN Null ELSE Some(s.cn),
                             !.rdValueOffset = IF s.rd = 0 THEN Null ELSE Some(s.rd),
                             !.csumStartOffset = Some(s.offset)],
             s.reads))))

\* Returns [val: success, cache, reads].
scanAndSkipHeaders(frame) ==
    Bind(findHeaderStartOffset(frame), LAMBDA h :
    IF h.val = 0 THEN Ret(FALSE, h.cache, h.reads)
    ELSE IF frame.size < h.val + 1 THEN Ret(FALSE, h.cache, h.reads)
    ELSE
    Bind(readUInt8(frame.buffer, h.val), LAMBDA nh :
    Bind(scanLoop(frame, 0, nh, h.val + 1, 0, 0, h.reads \cup {h.val}), LAMBDA s :
    IF ~s.ok THEN Ret(FALSE, h.cache, s.reads)
    ELSE Ret(TRUE,
             [h.cache EXCEPT !.cnValueOffset = Some(s.cn),
                             !.rdValueOffset = Some(s.rd),
                             !.csumStartOffset = Some(s.offset)],
             s.reads))))

\* Returns [val: null or the string, reads].
readUInt8String(frame, offset) ==
    IF frame.size < offset + 1 THEN [val |-> Null, reads |-> {}]
    ELSE Bind(offset + 1 + readUInt8(frame.buffer, offset), LAMBDA end :
         IF frame.size < end THEN [val |-> Null, reads |-> {offset}]
         ELSE [val |-> Some(fastBufferToString(frame.buffer, offset + 1, end)),
               reads |-> offset .. (end - 1)])

readCallerNameStr(frame) ==
    IF frame.cache.callerNameStr # Null
    THEN Ret(frame.cache.callerNameStr, frame.cache, {})
    ELSE
    Bind(IF frame.cache.cnValueOffset = Null THEN scanAndSkipHeaders(frame)
         ELSE Ret(TRUE, frame.cache, {}), LAMBDA s :
    IF ~s.val THEN Ret(Null, s.cache, s.reads)
    ELSE IF FalsyNum(s.cache.cnValueOffset) THEN Ret(Null, s.cache, s.reads)
    ELSE
    Bind(readUInt8String(frame, s.cache.cnValueOffset[1]), LAMBDA callerNameStr :
    IF FalsyStr(callerNameStr.val)
    THEN Ret(Null, s.cache, s.reads \cup callerNameStr.reads)
    ELSE Ret(callerNameStr.val,
             [s.cache EXCEPT !.callerNameStr = callerNameStr.val],
             s.reads \cup callerNameStr.reads)))

readRoutingDelegateStr(frame) ==
    IF frame.cache.routingDelegateStr # Null
    THEN Ret(frame.cache.routingDelegateStr, frame.cache, {})
    ELSE
    Bind(IF frame.cache.rdValueOffset = Null THEN scanAndSkipHeaders(frame)
         ELSE Ret(TRUE, frame.cache, {}), LAMBDA s :
    IF ~s.val THEN Ret(Null, s.cache, s.reads)
    ELSE IF FalsyNum(s.cache.rdValueOffset) THEN Ret(Null, s.cache, s.reads)
    ELSE
    Bind(readUInt8String(frame, s.cache.rdValueOffset[1]), LAMBDA routingDelegateStr :
    IF FalsyStr(routingDelegateStr.val)
    THEN Ret(Null, s.cache, s.reads \cup routingDelegateStr.reads)
    ELSE Ret(routingDelegateStr.val,
             [s.cache EXCEPT !.routingDelegateStr = routingDelegateStr.val],
             s.reads \cup routingDelegateStr.reads)))

\* Recording the error and forgetting where the checksum starts.
WithErrorDropsOffset(cache, msg) ==
    [cache EXCEPT !.lastError = Some(msg), !.csumStartOffset = Null]

WithError(cache, msg) == [cache EXCEPT !.lastError = Some(msg)]

\* The offset after the checksum whose type byte is at offset.
AfterChecksum(frame, offset) ==
    Bind(readUInt8(frame.buffer, offset), LAMBDA csumType :
        offset + 1
        + (IF csumType # ChecksumNone THEN ChecksumOffsetWidth(csumType) ELSE 0))

readArg1Str(frame) ==
    IF frame.cache.arg1Str # Null
    THEN Ret(frame.cache.arg1Str, frame.cache, {})
    ELSE
    Bind(IF FalsyNum(frame.cache.csumStartOffset) THEN scanAndSkipHeaders(frame)
         ELSE Ret(TRUE, frame.cache, {}), LAMBDA s :
    IF ~s.val
    THEN Ret(Null, WithError(s.cache, "Could not scan & skip headers"), s.reads)
    ELSE
    Bind(s.cache.csumStartOffset[1], LAMBDA offset :
    IF frame.size < offset + 1
    THEN Ret(Null, WithError(s.cache, "Could not read csum type"), s.reads)
    ELSE
    Bind(AfterChecksum(frame, offset), LAMBDA o1 :
    IF frame.size < o1 + 2
    THEN Ret(Null, WithError(s.cache, "Could not read arg1 size"),
             s.reads \cup {offset})
    ELSE
    Bind(o1 + 2 + readUInt16BE(frame.buffer, o1), LAMBDA end :
    IF frame.size < end
    THEN Ret(Null, WithError(s.cache, "Could not read arg1 itself"),
             s.reads \cup {offset, o1, o1 + 1})
    ELSE
    Bind(fastBufferToString(frame.buffer, o1 + 2, end), LAMBDA arg1Str :
        Ret(Some(arg1Str), [s.cache EXCEPT !.arg1Str = Some(arg1Str)],
            s.reads \cup {offset} \cup (o1 .. (end - 1))))))))

(***************************************************************************)
(* bufrw primitives and the tracing, header, checksum and args codecs.     *)
(* A read result is [err, offset, value, reads]; a write result is         *)
(* [err, offset, w] where w = [buffer, log] is the destination buffer and  *)
(* the offsets written so far, in order.                                   *)
(***************************************************************************)
RdOk(v, off, reads) == [err |-> Null, offset |-> off, value |-> v, reads |-> reads]

RdErr(e, off, reads) == [err |-> Some(e), offset |-> off, value |-> Null, reads |-> reads]

WOk(w, off) == [err |-> Null, offset |-> off, w |-> w]

WErr(w, e, off) == [err |-> Some(e), offset |-> off, w |-> w]

\* Store bytes at offset .. offset + Len(bytes) - 1 and log the offsets.
PutBytes(w, bytes, offset) ==
    [buffer |-> [i \in 1 .. Len(w.buffer) |->
                    IF i > offset /\ i <= offset + Len(bytes)
                    THEN bytes[i - offset] ELSE w.buffer[i]],
     log |-> w.log \o [i \in 1 .. Len(bytes) |-> offset + i - 1]]

U32Bytes(v) ==
    <<(v \div 16777216) % 256, (v \div 65536) % 256, (v \div 256) % 256, v % 256>>

U16Bytes(v) == <<(v \div 256) % 256, v % 256>>

UInt8_readFrom(buffer, offset) ==
    IF Len(buffer) - offset < 1 THEN RdErr("BufferTooShort", offset, {})
    ELSE RdOk(readUInt8(buffer, offset), offset + 1, {offset})

UInt32BE_readFrom(buffer, offset) ==
    IF Len(buffer) - offset < 4 THEN RdErr("BufferTooShort", offset, {})
    ELSE RdOk(readUInt32BE(buffer, offset), offset + 4, offset .. (offset + 3))

UInt8_writeInto(value, w, offset) ==
    IF Len(w.buffer) - offset < 1 THEN WErr(w, "BufferTooShort", offset)
    ELSE WOk(PutBytes(w, <<value % 256>>, offset), offset + 1)

UInt32BE_writeInto(value, w, offset) ==
    IF Len(w.buffer) - offset < 4 THEN WErr(w, "BufferTooShort", offset)
    ELSE WOk(PutBytes(w, U32Bytes(value), offset), offset + 4)

\* Raw length-prefixed bytes with a 1-byte length.
buf1_readFrom(buffer, offset) ==
    Bind(UInt8_readFrom(buffer, offset), LAMBDA n :
    IF n.err # Null THEN n
    ELSE IF Len(buffer) - n.offset < n.value
         THEN RdErr("BufferTooShort", n.offset, n.reads)
         ELSE RdOk(Slice(buffer, n.offset, n.offset + n.value), n.offset + n.value,
                   n.reads \cup (n.offset .. (n.offset + n.value - 1))))

str1_readFrom(buffer, offset) ==
    Bind(buf1_readFrom(buffer, offset), LAMBDA r :
    IF r.err # Null THEN r ELSE [r EXCEPT !.value = Utf8Decode(r.value)])

str1_byteLength(str) == 1 + Len(Utf8Encode(str))

str1_writeInto(str, w, offset) ==
    Bind(Utf8Encode(str), LAMBDA bytes :
    IF Len(bytes) > 255 THEN WErr(w, "LengthOverflow", offset)
    ELSE IF Len(w.buffer) - offset < 1 + Len(bytes)
         THEN WErr(w, "BufferTooShort", offset)
         ELSE WOk(PutBytes(w, <<Len(bytes)>> \o bytes, offset), offset + 1 + Len(bytes)))

\* arg~2: raw bytes with a 2-byte big-endian length.
arg2_readFrom(buffer, offset) ==
    IF Len(buffer) - offset < 2 THEN RdErr("BufferTooShort", offset, {})
    ELSE Bind(readUInt16BE(buffer, offset), LAMBDA n :
         IF Len(buffer) - (offset + 2) < n
         THEN RdErr("BufferTooShort", offset + 2, {offset, offset + 1})
         ELSE RdOk(Slice(buffer, offset + 2, offset + 2 + n), offset + 2 + n,
                   offset .. (offset + 2 + n - 1)))

arg2_writeInto(arg, w, offset) ==
    IF Len(arg) > 65535 THEN WErr(w, "LengthOverflow", offset)
    ELSE IF Len(w.buffer) - offset < 2 + Len(arg)
         THEN WErr(w, "BufferTooShort", offset)
         ELSE WOk(PutBytes(w, U16Bytes(Len(arg)) \o arg, offset), offset + 2 + Len(arg))

emptyTracing == TracingInfo(<<0, 0>>, <<0, 0>>, <<0, 0>>, 0)

Tracing_byteLength(tracing) == TracingWidth

Tracing_readFrom(buffer, offset) ==
    IF Len(buffer) - offset < TracingWidth THEN RdErr("BufferTooShort", offset, {})
    ELSE RdOk(TracingAt(buffer, offset),
              offset + TracingWidth, offset .. (offset + TracingWidth - 1))

Tracing_writeInto(tracing, w, offset) ==
    IF Len(w.buffer) - offset < TracingWidth THEN WErr(w, "BufferTooShort", offset)
    ELSE WOk(PutBytes(w, U32Bytes(tracing.spanid[1]) \o U32Bytes(tracing.spanid[2])
                         \o U32Bytes(tracing.parentid[1]) \o U32Bytes(tracing.parentid[2])
                         \o U32Bytes(tracing.traceid[1]) \o U32Bytes(tracing.traceid[2])
                         \o <<tracing.flags % 256>>, offset),
             offset + TracingWidth)

\* nh:1 (hk~1 hv~1){nh}.  Headers are a sequence of <<key, value>> pairs.
RECURSIVE header1_readPairs(_, _, _, _, _)
header1_readPairs(buffer, offset, n, acc, reads) ==
    IF n = 0 THEN RdOk(acc, offset, reads)
    ELSE Bind(str1_readFrom(buffer, offset), LAMBDA k :
         IF k.err # Null THEN RdErr(k.err[1], k.offset, reads \cup k.reads)
         ELSE Bind(str1_readFrom(buffer, k.offset), LAMBDA v :
              IF v.err # Null
              THEN RdErr(v.err[1], v.offset, reads \cup k.reads \cup v.reads)
              ELSE Bind(<<Append(acc, <<k.value, v.value>>),
                          reads \cup k.reads \cup v.reads>>, LAMBDA a :
                   header1_readPairs(buffer, v.offset, n - 1, a[1], a[2]))))

header1_readFrom(buffer, offset) ==
    Bind(UInt8_readFrom(buffer, offset), LAMBDA n :
    IF n.err # Null THEN n
    ELSE header1_readPairs(buffer, n.offset, n.value, <<>>, n.reads))

header1_lazyRead(frame, offset) == header1_readFrom(frame.buffer, offset)

RECURSIVE header1_byteLength(_)
header1_byteLength(headers) ==
    IF headers = <<>> THEN 1
    ELSE str1_byteLength(headers[1][1]) + str1_byteLength(headers[1][2])
         + header1_byteLength(Tail(headers))

RECURSIVE header1_writePairs(_, _, _)
header1_writePairs(headers, w, offset) ==
    IF headers = <<>> THEN WOk(w, offset)
    ELSE Bind(str1_writeInto(headers[1][1], w, offset), LAMBDA k :
         IF k.err # Null THEN k
         ELSE Bind(str1_writeInto(headers[1][2], k.w, k.offset), LAMBDA v :
              IF v.err # Null THEN v
              ELSE header1_writePairs(Tail(headers), v.w, v.offset)))

header1_writeInto(headers, w, offset) ==
    IF Len(headers) > 255 THEN WErr(w, "LengthOverflow", offset)
    ELSE Bind(UInt8_writeInto(Len(headers), w, offset), LAMBDA n :
         IF n.err # Null THEN n ELSE header1_writePairs(headers, n.w, n.offset))

\* Checksum: type:1 then a digest of offsetWidth(type) bytes.
ChecksumTypes == 0 .. 3

Checksum(type, val) == [type |-> type, val |-> val]

Checksum_byteLength(csum) == 1 + ChecksumOffsetWidth(csum.type)

Checksum_readFrom(buffer, offset) ==
    Bind(UInt8_readFrom(buffer, offset), LAMBDA t :
    IF t.err # Null THEN t
    ELSE IF t.value \notin ChecksumTypes
         THEN RdErr("InvalidChecksumType", offset, t.reads)
    ELSE IF t.value = ChecksumNone THEN RdOk(Checksum(ChecksumNone, 0), t.offset, t.reads)
    ELSE Bind(UInt32BE_readFrom(buffer, t.offset), LAMBDA d :
         IF d.err # Null THEN RdErr(d.err[1], d.offset, t.reads \cup d.reads)
         ELSE RdOk(Checksum(t.value, d.value), d.offset, t.reads \cup d.reads)))

Checksum_writeInto(csum, w, offset) ==
    IF csum.type \notin ChecksumTypes THEN WErr(w, "InvalidChecksumType", offset)
    ELSE Bind(UInt8_writeInto(csum.type, w, offset), LAMBDA t :
         IF t.err # Null \/ csum.type = ChecksumNone THEN t
         ELSE UInt32BE_writeInto(csum.val, t.w, t.offset))

RECURSIVE argsrw_readArgs(_, _, _, _)
argsrw_readArgs(buffer, offset, acc, reads) ==
    IF offset >= Len(buffer) THEN RdOk(acc, offset, reads)
    ELSE Bind(arg2_readFrom(buffer, offset), LAMBDA a :
         IF a.err # Null THEN RdErr(a.err[1], a.offset, reads \cup a.reads)
         ELSE Bind(<<Append(acc, a.value), reads \cup a.reads>>, LAMBDA n :
              argsrw_readArgs(buffer, a.offset, n[1], n[2])))

\* csumtype:1 (csum:4){0,1} (arg~2)*, consumed to the end of the buffer;
\* on success the value is the body with csum and args filled in.
argsrw_readFrom(body, buffer, offset) ==
    Bind(Checksum_readFrom(buffer, offset), LAMBDA c :
    IF c.err # Null THEN c
    ELSE Bind(argsrw_readArgs(buffer, c.offset, <<>>, c.reads), LAMBDA a :
         IF a.err # Null THEN a
         ELSE [a EXCEPT !.value = [body EXCEPT !.csum = c.value, !.args = a.value]]))

RECURSIVE argsrw_argsLength(_)
argsrw_argsLength(args) ==
    IF args = <<>> THEN 0 ELSE 2 + Len(args[1]) + argsrw_argsLength(Tail(args))

argsrw_byteLength(body) ==
    [err |-> Null, length |-> Checksum_byteLength(body.csum) + argsrw_argsLength(body.args)]

RECURSIVE argsrw_writeArgs(_, _, _)
argsrw_writeArgs(args, w, offset) ==
    IF args = <<>> THEN WOk(w, offset)
    ELSE Bind(arg2_writeInto(args[1], w, offset), LAMBDA a :
         IF a.err # Null THEN a ELSE argsrw_writeArgs(Tail(args), a.w, a.offset))

SetFragment(flags) == IF flags % 2 = 1 THEN flags ELSE flags + FragmentFlag

\* Writes checksum and args; sets the Fragment bit of body.flags when the
\* writer was told that more bodies follow.  Result carries the body.
argsrw_writeInto(body, more, w, offset) ==
    Bind(Checksum_writeInto(body.csum, w, offset), LAMBDA c :
    IF c.err # Null THEN c @@ [body |-> body]
    ELSE Bind(argsrw_writeArgs(body.args, c.w, c.offset), LAMBDA a :
         IF a.err # Null THEN a @@ [body |-> body]
         ELSE a @@ [body |-> IF more THEN [body EXCEPT !.flags = SetFragment(@)]
                             ELSE body]))

\* readHeaders caching the offset that follows the service length byte.
readHeadersForgetsServiceLength(frame) ==
    IF frame.cache.headerStartOffset # Null
    THEN Bind(header1_lazyRead(frame, frame.cache.headerStartOffset[1]), LAMBDA r :
         Ret([err |-> r.err, value |-> r.value], frame.cache, r.reads))
    ELSE Bind(UInt8_readFrom(frame.buffer, serviceOffset), LAMBDA res :
         IF res.err # Null
         THEN Ret([err |-> res.err, value |-> res.value], frame.cache, res.reads)
         ELSE
         Bind(res.offset, LAMBDA offset :
         Bind([frame.cache EXCEPT !.headerStartOffset = Some(offset)], LAMBDA c2 :
         Bind(header1_lazyRead([frame EXCEPT !.cache = c2], offset), LAMBDA r :
             Ret([err |-> r.err, value |-> r.value], c2, res.reads \cup r.reads)))))

(***************************************************************************)
(* CallRequest.RW.lazy.readHeaders: the value is the header read result.   *)
(***************************************************************************)
readHeaders(frame) ==
    IF frame.cache.headerStartOffset # Null
    THEN Bind(header1_lazyRead(frame, frame.cache.headerStartOffset[1]), LAMBDA r :
         Ret([err |-> r.err, value |-> r.value], frame.cache, r.reads))
    ELSE Bind(UInt8_readFrom(frame.buffer, serviceOffset), LAMBDA res :
         IF res.err # Null
         THEN Ret([err |-> res.err, value |-> res.value], frame.cache, res.reads)
         ELSE
         Bind(res.offset + res.value, LAMBDA offset :
         Bind([frame.cache EXCEPT !.headerStartOffset = Some(offset)], LAMBDA c2 :
         Bind(header1_lazyRead([frame EXCEPT !.cache = c2], offset), LAMBDA r :
             Ret([err |-> r.err, value |-> r.value], c2, res.reads \cup r.reads)))))

(***************************************************************************)
(* Structured bodies and their byteLength / readFrom / writeInto.          *)
(***************************************************************************)
CallRequest(flags, ttl, tracing, service, headers, csum, args) ==
    [flags |-> flags, ttl |-> ttl, tracing |-> tracing, service |-> service,
     headers |-> headers, csum |-> csum, args |-> args]

NewCallRequest == CallRequest(0, 0, emptyTracing, <<>>, <<>>, Checksum(ChecksumNone, 0), <<>>)

CallResponse(flags, code, tracing, headers, csum, args) ==
    [flags |-> flags, code |-> code, tracing |-> tracing,
     headers |-> headers, csum |-> csum, args |-> args]

NewCallResponse == CallResponse(0, 0, emptyTracing, <<>>, Checksum(ChecksumNone, 0), <<>>)

\* callReqLength that leaves out the four ttl bytes.
callReqLengthNoTTL(body) ==
    Bind(1 + Tracing_byteLength(body.tracing)
         + str1_byteLength(body.service) + header1_byteLength(body.headers), LAMBDA length :
    Bind(argsrw_byteLength(body), LAMBDA res :
        IF res.err = Null THEN [res EXCEPT !.length = @ + length] ELSE res))

callReqLength(body) ==
    Bind(1 + 4 + Tracing_byteLength(body.tracing)
         + str1_byteLength(body.service) + header1_byteLength(body.headers), LAMBDA length :
    Bind(argsrw_byteLength(body), LAMBDA res :
        IF res.err = Null THEN [res EXCEPT !.length = @ + length] ELSE res))

\* readCallReqFrom rejecting only a negative ttl.
readCallReqFromAcceptsZeroTTL(buffer, offset) ==
    Bind(UInt8_readFrom(buffer, offset), LAMBDA f :
    IF f.err # Null THEN f
    ELSE
    Bind([NewCallRequest EXCEPT !.flags = f.value], LAMBDA b1 :
    Bind(UInt32BE_readFrom(buffer, f.offset), LAMBDA t :
    IF t.err # Null THEN [t EXCEPT !.reads = f.reads \cup @]
    ELSE IF t.value < 0
    THEN [err |-> Some("InvalidTTL"), offset |-> f.offset, value |-> Some(b1),
          reads |-> f.reads \cup t.reads]
    ELSE
    Bind(Tracing_readFrom(buffer, t.offset), LAMBDA tr :
    IF tr.err # Null THEN [tr EXCEPT !.reads = f.reads \cup t.reads \cup @]
    ELSE
    Bind(str1_readFrom(buffer, tr.offset), LAMBDA sv :
    Bind(f.reads \cup t.reads \cup tr.reads \cup sv.reads, LAMBDA r3 :
    IF sv.err # Null THEN [sv EXCEPT !.reads = r3]
    ELSE
    Bind(header1_readFrom(buffer, sv.offset), LAMBDA h :
    IF h.err # Null THEN [h EXCEPT !.reads = r3 \cup @]
    ELSE
    Bind([b1 EXCEPT !.ttl = t.value, !.tracing = tr.value,
                    !.service = sv.value, !.headers = h.value], LAMBDA b5 :
    Bind(argsrw_readFrom(b5, buffer, h.offset), LAMBDA a :
    IF a.err # Null THEN [a EXCEPT !.reads = r3 \cup h.reads \cup @]
    ELSE [a EXCEPT !.value = Some(a.value),
                   !.reads = r3 \cup h.reads \cup @])))))))))

\* Result: [err, offset, value, reads]; value is null or the body.
readCallReqFrom(buffer, offset) ==
    Bind(UInt8_readFrom(buffer, offset), LAMBDA f :
    IF f.err # Null THEN f
    ELSE
    Bind([NewCallRequest EXCEPT !.flags = f.value], LAMBDA b1 :
    Bind(UInt32BE_readFrom(buffer, f.offset), LAMBDA t :
    IF t.err # Null THEN [t EXCEPT !.reads = f.reads \cup @]
    ELSE IF t.value <= 0
    THEN [err |-> Some("InvalidTTL"), offset |-> f.offset, value |-> Some(b1),
          reads |-> f.reads \cup t.reads]
    ELSE
    Bind(Tracing_readFrom(buffer, t.offset), LAMBDA tr :
    IF tr.err # Null THEN [tr EXCEPT !.reads = f.reads \cup t.reads \cup @]
    ELSE
    Bind(str1_readFrom(buffer, tr.offset), LAMBDA sv :
    Bind(f.reads \cup t.reads \cup tr.reads \cup sv.reads, LAMBDA r3 :
    IF sv.err # Null THEN [sv EXCEPT !.reads = r3]
    ELSE
    Bind(header1_readFrom(buffer, sv.offset), LAMBDA h :
    IF h.err # Null THEN [h EXCEPT !.reads = r3 \cup @]
    ELSE
    Bind([b1 EXCEPT !.ttl = t.value, !.tracing = tr.value,
                    !.service = sv.value, !.headers = h.value], LAMBDA b5 :
    Bind(argsrw_readFrom(b5, buffer, h.offset), LAMBDA a :
    IF a.err # Null THEN [a EXCEPT !.reads = r3 \cup h.reads \cup @]
    ELSE [a EXCEPT !.value = Some(a.value),
                   !.reads = r3 \cup h.reads \cup @])))))))))

\* writeCallReqInto writing the flags byte first, before the args writer ran.
writeCallReqIntoEarlyFlags(body, more, w, offset) ==
    Bind(UInt8_writeInto(body.flags, w, offset), LAMBDA f0 :
    IF f0.err # Null THEN f0 @@ [body |-> body]
    ELSE
    IF body.ttl <= 0 THEN WErr(w, "InvalidTTL", offset + 1) @@ [body |-> body]
    ELSE
    Bind(UInt32BE_writeInto(body.ttl, f0.w, offset + 1), LAMBDA t :
    IF t.err # Null THEN t @@ [body |-> body]
    ELSE
    Bind(Tracing_writeInto(body.tracing, t.w, t.offset), LAMBDA tr :
    IF tr.err # Null THEN tr @@ [body |-> body]
    ELSE
    Bind(str1_writeInto(body.service, tr.w, tr.offset), LAMBDA sv :
    IF sv.err # Null THEN sv @@ [body |-> body]
    ELSE
    Bind(header1_writeInto(body.headers, sv.w, sv.offset), LAMBDA h :
    IF h.err # Null THEN h @@ [body |-> body]
    ELSE
    argsrw_writeInto(body, more, h.w, h.offset))))))

\* Result: [err, offset, w, body]; body.flags may have been set by argsrw.
writeCallReqInto(body, more, w, offset) ==
    IF body.ttl <= 0 THEN WErr(w, "InvalidTTL", offset + 1) @@ [body |-> body]
    ELSE
    Bind(UInt32BE_writeInto(body.ttl, w, offset + 1), LAMBDA t :
    IF t.err # Null THEN t @@ [body |-> body]
    ELSE
    Bind(Tracing_writeInto(body.tracing, t.w, t.offset), LAMBDA tr :
    IF tr.err # Null THEN tr @@ [body |-> body]
    ELSE
    Bind(str1_writeInto(body.service, tr.w, tr.offset), LAMBDA sv :
    IF sv.err # Null THEN sv @@ [body |-> body]
    ELSE
    Bind(header1_writeInto(body.headers, sv.w, sv.offset), LAMBDA h :
    IF h.err # Null THEN h @@ [body |-> body]
    ELSE
    Bind(argsrw_writeInto(body, more, h.w, h.offset), LAMBDA a :
    IF a.err # Null THEN a
    ELSE
    Bind(UInt8_writeInto(a.body.flags, a.w, offset), LAMBDA f :
    IF f.err # Null THEN f @@ [body |-> a.body]
    ELSE [f EXCEPT !.offset = a.offset] @@ [body |-> a.body]))))))

callResLength(body) ==
    Bind(1 + 1 + Tracing_byteLength(body.tracing)
         + header1_byteLength(body.headers), LAMBDA length :
    Bind(argsrw_byteLength(body), LAMBDA res :
        IF res.err = Null THEN [res EXCEPT !.length = @ + length] ELSE res))

\* readCallResFrom that reads the code byte but does not keep it.
readCallResFromDropsCode(buffer, offset) ==
    Bind(UInt8_readFrom(buffer, offset), LAMBDA f :
    IF f.err # Null THEN f
    ELSE
    Bind(UInt8_readFrom(buffer, f.offset), LAMBDA c :
    IF c.err # Null THEN [c EXCEPT !.reads = f.reads \cup @]
    ELSE
    Bind(Tracing_readFrom(buffer, c.offset), LAMBDA tr :
    Bind(f.reads \cup c.reads \cup tr.reads, LAMBDA r2 :
    IF tr.err # Null THEN [tr EXCEPT !.reads = r2]
    ELSE
    Bind(header1_readFrom(buffer, tr.offset), LAMBDA h :
    IF h.err # Null THEN [h EXCEPT !.reads = r2 \cup @]
    ELSE
    Bind([NewCallResponse EXCEPT !.flags = f.value, 
                                !.tracing = tr.value, !.headers = h.value], LAMBDA b4 :
    Bind(argsrw_readFrom(b4, buffer, h.offset), LAMBDA a :
    IF a.err # Null THEN [a EXCEPT !.reads = r2 \cup h.reads \cup @]
    ELSE [a EXCEPT !.value = Some(a.value),
                   !.reads = r2 \cup h.reads \cup @])))))))

readCallResFrom(buffer, offset) ==
    Bind(UInt8_readFrom(buffer, offset), LAMBDA f :
    IF f.err # Null THEN f
    ELSE
    Bind(UInt8_readFrom(buffer, f.offset), LAMBDA c :
    IF c.err # Null THEN [c EXCEPT !.reads = f.reads \cup @]
    ELSE
    Bind(Tracing_readFrom(buffer, c.offset), LAMBDA tr :
    Bind(f.reads \cup c.reads \cup tr.reads, LAMBDA r2 :
    IF tr.err # Null THEN [tr EXCEPT !.reads = r2]
    ELSE
    Bind(header1_readFrom(buffer, tr.offset), LAMBDA h :
    IF h.err # Null THEN [h EXCEPT !.reads = r2 \cup @]
    ELSE
    Bind([NewCallResponse EXCEPT !.flags = f.value, !.code = c.value, 
                                !.tracing = tr.value, !.headers = h.value], LAMBDA b4 :
    Bind(argsrw_readFrom(b4, buffer, h.offset), LAMBDA a :
    IF a.err # Null THEN [a EXCEPT !.reads = r2 \cup h.reads \cup @]
    ELSE [a EXCEPT !.value = Some(a.value),
                   !.reads = r2 \cup h.reads \cup @])))))))

writeCallResInto(body, more, w, offset) ==
    Bind(UInt8_writeInto(body.code, w, offset + 1), LAMBDA t :
    IF t.err # Null THEN t @@ [body |-> body]
    ELSE
    Bind(Tracing_writeInto(body.tracing, t.w, t.offset), LAMBDA tr :
    IF tr.err # Null THEN tr @@ [body |-> body]
    ELSE
    Bind(header1_writeInto(body.headers, tr.w, tr.offset), LAMBDA h :
    IF h.err # Null THEN h @@ [body |-> body]
    ELSE
    Bind(argsrw_writeInto(body, more, h.w, h.offset), LAMBDA a :
    IF a.err # Null THEN a
    ELSE
    Bind(UInt8_writeInto(a.body.flags, a.w, offset), LAMBDA f :
    IF f.err # Null THEN f @@ [body |-> a.body]
    ELSE [f EXCEPT !.offset = a.offset] @@ [body |-> a.body])))))

(***************************************************************************)
(* Bounds and input pools.                                                 *)
(***************************************************************************)
MaxHeaders == 2

MaxArgs == 1

MaxTruncHeaders == 1

\* Strings as code points: "cn", "rd", "k", "a", "b", "sé".
StrCn == <<99, 110>>

StrRd == <<114, 100>>

\* Transport headers: cn -> "a", cn -> "", rd -> "b", k -> "cn".
HeaderPairs ==
    {<<StrCn, <<97>>>>, <<StrCn, <<>>>>, <<StrRd, <<98>>>>, <<<<107>>, StrCn>>}

Lists(pairs, n) == UNION {[1 .. k -> pairs] : k \in 0 .. n}

HeaderLists(n) == Lists(HeaderPairs, n)

Services == {<<>>, <<115, 233>>}

\* Raw argument bytes; the second is not valid UTF-8.
ArgBytes == {<<>>, <<104, 233>>}

ArgLists(n) == UNION {[1 .. k -> ArgBytes] : k \in 0 .. n}

Checksums == {Checksum(ChecksumNone, 0), Checksum(1, 16909060)}

SampleTracing == TracingInfo(<<1, 2>>, <<0, 258>>, <<3, 65536>>, 1)

\* A destination buffer of n bytes that nothing has been written to.
FreshBuffer(n) == [buffer |-> [i \in 1 .. n |-> 170], log |-> <<>>]

\* The frame header (size:2 type:1 reserved:1 id:4 reserved:8) before a body.
FrameHeader(len, type) ==
    U16Bytes(len) \o <<type, 0>> \o U32Bytes(1) \o <<0, 0, 0, 0, 0, 0, 0, 0>>

\* Room for a body in a write buffer.
MaxBody == 80

\* The bytes of a request frame carrying body: the body written after the
\* frame header, cut at the writer's end offset, the size field filled in.
RequestFrame(body) ==
    Bind(writeCallReqInto(body, FALSE,
                          FreshBuffer(FrameOverhead + MaxBody),
                          FrameOverhead), LAMBDA r :
        FrameHeader(r.offset, 3) \o Slice(r.w.buffer, FrameOverhead, r.offset))

\* Service, checksum and arguments of the frames read lazily: an empty
\* service and a first argument, a service and a first argument behind a
\* checksum digest, and a service without arguments.
LazyProfiles ==
    {[service |-> <<>>, csum |-> Checksum(ChecksumNone, 0),
      args |-> <<<<104, 233>>>>],
     [service |-> <<115, 233>>, csum |-> Checksum(1, 16909060),
      args |-> <<<<104, 233>>>>],
     [service |-> <<115, 233>>, csum |-> Checksum(ChecksumNone, 0), args |-> <<>>]}

\* Complete request frames read lazily.
LazyBodies ==
    {CallRequest(0, 258, SampleTracing, p.service, h, p.csum, p.args) :
        p \in LazyProfiles, h \in HeaderLists(MaxHeaders)}

\* Request frames that are cut short.
TruncBodies ==
    {CallRequest(0, 258, SampleTracing, <<115, 233>>, h, Checksum(1, 16909060),
                 <<<<104, 233>>>>) :
        h \in Lists({<<StrCn, <<97>>>>, <<StrRd, <<98>>>>, <<<<107>>, StrCn>>},
                    MaxTruncHeaders)}

(***************************************************************************)
(* State.  A frame under lazy reading: buffer (of length size, as the      *)
(* framing layer delivers it), size, cache; src is the request body the    *)
(* frame was encoded from and full the complete bytes of that frame;       *)
(* first[a] is the value accessor a returned on its first call and last    *)
(* describes the most recent call.                                         *)
(***************************************************************************)
VARIABLES buffer, size, cache, src, full, first, last

lazyVars == <<buffer, size, cache, src, full, first, last>>

(***************************************************************************)
(* State of one structured encode/decode: body is the body handed to the   *)
(* byteLength function and the writer (which may set its Fragment bit),    *)
(* body0 the body as constructed, more whether the writer was told that    *)
(* more bodies follow, w the destination buffer with the log of offsets    *)
(* written, and lenres, wres, rres the results of byteLength, writeInto    *)
(* and readFrom (null until the operation has run).                        *)
(***************************************************************************)
VARIABLES kind, body, body0, more, w, lenres, wres, rres

codecVars == <<kind, body, body0, more, w, lenres, wres, rres>>

(***************************************************************************)
(* State of one PermissionsCache: permissions is the object (max is the    *)
(* bound of the LRU cache it extends, lru its entries from least to most   *)
(* recently used, bucketIntervals the handles of the intervals it set,     *)
(* each with the key its resetTokens writes and whether it is still        *)
(* live), observed the keys of the inbound calls observed so far, obs the  *)
(* number of inbound calls observed for each key of the cache since the    *)
(* key was last reset, and plast the last operation.                       *)
(***************************************************************************)
VARIABLES permissions, observed, obs, plast

permVars == <<permissions, observed, obs, plast>>

vars == <<lazyVars, codecVars, permVars>>

NoStat == [name |-> "", type |-> "", tags |-> <<>>]

NoOp == [op |-> "none", stat |-> NoStat, key |-> ""]

PermIdle ==
    /\ permissions = [max |-> 0, lru |-> <<>>, bucketIntervals |-> <<>>]
    /\ observed = {} /\ obs = <<>> /\ plast = NoOp

NoLast == [acc |-> "none", val |-> Null, reads |-> {}, raised |-> FALSE, again |-> FALSE]

LazyIdle ==
    /\ buffer = <<>> /\ size = 0 /\ cache = EmptyCache /\ src = NewCallRequest
    /\ full = <<>> /\ first = [a \in {} |-> Null] /\ last = NoLast

CodecIdle ==
    /\ kind = "none" /\ body = NewCallRequest /\ body0 = NewCallRequest
    /\ more = FALSE /\ w = [buffer |-> <<>>, log |-> <<>>]
    /\ lenres = Null /\ wres = Null /\ rres = Null

Accessors ==
    {"readTTL", "readTracingValue", "readServiceStr", "readCallerNameStr",
     "readRoutingDelegateStr", "readArg1Str", "readHeaders"}

CachedAccessors == Accessors \ {"readHeaders"}

frame == [buffer |-> buffer, size |-> size, cache |-> cache]

LazyInit(bodies, sizes(_)) ==
    \E b \in bodies :
        \E F \in {RequestFrame(b)} :
        \E n \in sizes(F) :
            /\ src = b
            /\ full = F
            /\ buffer = Slice(F, 0, n)
            /\ size = n
            /\ cache = EmptyCache
            /\ first = [a \in Accessors |-> Null]
            /\ last = NoLast
            /\ CodecIdle
            /\ PermIdle

WholeSize(F) == {Len(F)}

\* The framing layer hands over a frame once its header has arrived.  Cuts
\* inside the fixed-width fields are taken at the ends of the header, of the
\* ttl and of the tracing and one byte before the latter two; from the
\* service on, every cut.
PrefixSizes(F) ==
    {n \in FrameOverhead .. Len(F) :
        \/ n \in {FrameOverhead, ttlOffset + 3, ttlOffset + 4, serviceOffset - 1}
        \/ n >= serviceOffset}

Init == LazyInit(LazyBodies, WholeSize)

InitTrunc == LazyInit(TruncBodies, PrefixSizes)

\* One lazy call of accessor acc with result r.  A read outside the buffer
\* raises before any later assignment, so the cache is then left alone.
LazyCall(acc, r) ==
    \E raised \in {\E o \in r.reads : o >= Len(buffer)} :
    /\ cache' = (IF raised THEN cache ELSE r.cache)
    /\ last' = [acc |-> acc, val |-> (IF raised THEN Null ELSE r.val),
                reads |-> r.reads, raised |-> raised, again |-> first[acc] # Null]
    /\ first' = (IF first[acc] = Null
                 THEN [first EXCEPT ![acc] = Some(IF raised THEN Null ELSE r.val)]
                 ELSE first)
    /\ UNCHANGED <<buffer, size, src, full>>
    /\ UNCHANGED <<codecVars, permVars>>

ReadTTL == \E r \in {readTTL(frame)} : LazyCall("readTTL", r)

ReadTracingValue == \E r \in {readTracingValue(frame)} : LazyCall("readTracingValue", r)

ReadServiceStr == \E r \in {readServiceStr(frame)} : LazyCall("readServiceStr", r)

ReadCallerNameStr == \E r \in {readCallerNameStr(frame)} : LazyCall("readCallerNameStr", r)

ReadRoutingDelegateStr == \E r \in {readRoutingDelegateStr(frame)} : LazyCall("readRoutingDelegateStr", r)

ReadArg1Str == \E r \in {readArg1Str(frame)} : LazyCall("readArg1Str", r)

ReadHeaders == \E r \in {readHeaders(frame)} : LazyCall("readHeaders", r)

Next ==
    \/ ReadTTL
    \/ ReadTracingValue
    \/ ReadServiceStr
    \/ ReadCallerNameStr
    \/ ReadRoutingDelegateStr
    \/ ReadArg1Str
    \/ ReadHeaders

Spec == Init /\ [][Next]_vars

SpecTrunc == InitTrunc /\ [][Next]_vars

(***************************************************************************)
(* Structured encode and decode of one body.                               *)
(***************************************************************************)
BodyStart == FrameOverhead

FlagValues == {0, 1, 6}

\* Headers of the bodies encoded: cn -> "a" and cn -> "".
CodecHeaders == Lists({<<StrCn, <<97>>>>, <<StrCn, <<>>>>}, MaxHeaders)

CodecRequests ==
    {CallRequest(f, t, SampleTracing, sv, h, c, a) :
        f \in FlagValues, t \in {0, 258}, sv \in Services,
        h \in CodecHeaders, c \in Checksums, a \in ArgLists(MaxArgs)}

CodecResponses ==
    {CallResponse(f, cd, SampleTracing, h, c, a) :
        f \in FlagValues, cd \in {1, 7},
        h \in CodecHeaders, c \in Checksums, a \in ArgLists(MaxArgs)}

\* Destination capacities: room for every body, and too short inside the
\* second field, inside the tracing field and at a later place.
Capacities == {BodyStart + c : c \in {3, 20, 40, MaxBody}}

InitCodec ==
    /\ LazyIdle
    /\ PermIdle
    /\ \E k \in {"req", "res"} :
        \E b \in (IF k = "req" THEN CodecRequests ELSE CodecResponses) :
            \E cap \in Capacities :
                /\ kind = k
                /\ body = b
                /\ body0 = b
                /\ w = FreshBuffer(cap)
    /\ more \in BOOLEAN
    /\ lenres = Null
    /\ wres = Null
    /\ rres = Null

ReqByteLength ==
    /\ kind = "req" /\ lenres = Null
    /\ \E r \in {callReqLength(body)} : lenres' = Some(r)
    /\ UNCHANGED <<kind, body, body0, more, w, wres, rres>>
    /\ UNCHANGED <<lazyVars, permVars>>

ResByteLength ==
    /\ kind = "res" /\ lenres = Null
    /\ \E r \in {callResLength(body)} : lenres' = Some(r)
    /\ UNCHANGED <<kind, body, body0, more, w, wres, rres>>
    /\ UNCHANGED <<lazyVars, permVars>>

Written(r) ==
    /\ w' = r.w
    /\ body' = r.body
    /\ wres' = Some([err |-> r.err, offset |-> r.offset])
    /\ UNCHANGED <<kind, body0, more, lenres, rres>>
    /\ UNCHANGED <<lazyVars, permVars>>

ReqWrite ==
    /\ kind = "req" /\ wres = Null
    /\ \E r \in {writeCallReqInto(body, more, w, BodyStart)} : Written(r)

ResWrite ==
    /\ kind = "res" /\ wres = Null
    /\ \E r \in {writeCallResInto(body, more, w, BodyStart)} : Written(r)

\* The bytes of buf with the four bytes after the flags byte zeroed.
ZeroTTL(buf) ==
    [i \in 1 .. Len(buf) |->
        IF i > BodyStart + 1 /\ i <= BodyStart + 5 THEN 0 ELSE buf[i]]

MaxCut == 2

\* What the peer may receive of a successfully written body: the bytes up
\* to the writer's end offset, the same with a zero ttl, or a shorter cut.
Received ==
    Bind(Slice(w.buffer, 0, wres[1].offset), LAMBDA sent :
    {[input |-> "sent", buf |-> sent]}
    \cup {[input |-> "zero_ttl", buf |-> ZeroTTL(sent)] : x \in {m \in {kind} : m = "req"}}
    \cup {[input |-> "cut", buf |-> Slice(sent, 0, Len(sent) - k)] : k \in 1 .. MaxCut})

Decoded(rx, r) ==
    /\ rres' = Some([input |-> rx.input, buf |-> rx.buf, res |-> r])
    /\ UNCHANGED <<kind, body, body0, more, w, lenres, wres>>
    /\ UNCHANGED <<lazyVars, permVars>>

ReqRead ==
    /\ kind = "req" /\ rres = Null /\ wres # Null /\ wres[1].err = Null
    /\ \E rx \in Received :
        \E r \in {readCallReqFrom(rx.buf, BodyStart)} : Decoded(rx, r)

ResRead ==
    /\ kind = "res" /\ rres = Null /\ wres # Null /\ wres[1].err = Null
    /\ \E rx \in Received :
        \E r \in {readCallResFrom(rx.buf, BodyStart)} : Decoded(rx, r)

NextCodec ==
    \/ ReqByteLength
    \/ ResByteLength
    \/ ReqWrite
    \/ ResWrite
    \/ ReqRead
    \/ ResRead

SpecCodec == InitCodec /\ [][NextCodec]_vars

(***************************************************************************)
(* Reference values for the properties below.                              *)
(***************************************************************************)
CallAccessor(acc, fr) ==
    CASE acc = "readTTL" -> readTTL(fr)
      [] acc = "readTracingValue" -> readTracingValue(fr)
      [] acc = "readServiceStr" -> readServiceStr(fr)
      [] acc = "readCallerNameStr" -> readCallerNameStr(fr)
      [] acc = "readRoutingDelegateStr" -> readRoutingDelegateStr(fr)
      [] acc = "readArg1Str" -> readArg1Str(fr)
      [] acc = "readHeaders" -> readHeaders(fr)

\* What accessor acc returns on the complete frame with an empty cache.
FullVal(acc) ==
    CallAccessor(acc, [buffer |-> full, size |-> Len(full), cache |-> EmptyCache]).val

\* The value an accessor returns when it gives up.
Sentinel(acc) == IF acc = "readTTL" THEN 0 ELSE Null

Truncated == size < Len(full)

HeaderIndexes(headers, key) == {i \in 1 .. Len(headers) : headers[i][1] = key}

FirstIndex(headers, key) ==
    CHOOSE i \in HeaderIndexes(headers, key) :
        \A j \in HeaderIndexes(headers, key) : i <= j

\* The value of the first header with the given key, null when there is none.
FirstHeaderValue(headers, key) ==
    IF HeaderIndexes(headers, key) = {} THEN Null
    ELSE Some(headers[FirstIndex(headers, key)][2])

\* Wire offset of the value (its length byte) of header i of request b.
RECURSIVE PairsLength(_, _)
PairsLength(headers, n) ==
    IF n = 0 THEN 0
    ELSE PairsLength(headers, n - 1)
         + str1_byteLength(headers[n][1]) + str1_byteLength(headers[n][2])

ValueOffset(b, i) ==
    serviceOffset + str1_byteLength(b.service) + 1
    + PairsLength(b.headers, i - 1) + str1_byteLength(b.headers[i][1])

\* The structured decoding of the frame at hand.
Decode == readCallReqFrom(buffer, FrameOverhead)

(***************************************************************************)
(* Properties of the lazy accessors.                                       *)
(***************************************************************************)

\* C1: on any frame, complete or cut short, and under any sequence of lazy
\* calls, every call of a cache-backed accessor returns the value that the
\* first call of that accessor on the frame returned.
C1_RepeatedCallsReturnEqual ==
    last.acc \in CachedAccessors =>
        /\ ~last.raised
        /\ Some(last.val) = first[last.acc]

\* A cut-short frame on which an accessor that returned a string was called again.
C1_Witness ==
    /\ Truncated
    /\ last.again
    /\ last.acc = "readServiceStr"
    /\ last.val # Null
    /\ first["readArg1Str"] = Some(Null)

\* C2 (as claimed): on a complete frame readCallerNameStr returns exactly the
\* value of the first "cn" header, the empty string included, and null only
\* when there is no "cn" header; readRoutingDelegateStr likewise for "rd".
C2_ReturnsFirstHeaderValue ==
    /\ last.acc = "readCallerNameStr" =>
           last.val = FirstHeaderValue(src.headers, StrCn)
    /\ last.acc = "readRoutingDelegateStr" =>
           last.val = FirstHeaderValue(src.headers, StrRd)

\* C3: on a complete frame the lazy accessors agree with the structured
\* decoder: service (the empty service is the empty string, not null), ttl,
\* and the first argument decoded as UTF-8 (null when the frame has none).
C3_LazyAgreesWithDecode ==
    last.acc \in {"readServiceStr", "readTTL", "readArg1Str"} =>
        LET d == Decode IN
        /\ d.err = Null
        /\ last.acc = "readServiceStr" => last.val = Some(d.value[1].service)
        /\ last.acc = "readTTL" => last.val = d.value[1].ttl
        /\ last.acc = "readArg1Str" =>
               last.val = (IF d.value[1].args = <<>> THEN Null
                           ELSE Some(Utf8Decode(d.value[1].args[1])))

\* The empty service read as the empty string after the first argument was read.
C3_Witness ==
    /\ last.acc = "readServiceStr"
    /\ last.val = Some(<<>>)
    /\ cache.arg1Str = Some(<<104, Replacement>>)
    /\ cache.ttlValue = Some(258)

\* C4 (as claimed): with more than one "cn" (or "rd") header the scan records
\* the value offset of the earliest one and the accessor returns its value.
C4_FirstOccurrenceWins ==
    /\ (last.acc = "readCallerNameStr"
        /\ Cardinality(HeaderIndexes(src.headers, StrCn)) > 1) =>
           /\ cache.cnValueOffset
                = Some(ValueOffset(src, FirstIndex(src.headers, StrCn)))
           /\ last.val = FirstHeaderValue(src.headers, StrCn)
    /\ (last.acc = "readRoutingDelegateStr"
        /\ Cardinality(HeaderIndexes(src.headers, StrRd)) > 1) =>
           /\ cache.rdValueOffset
                = Some(ValueOffset(src, FirstIndex(src.headers, StrRd)))
           /\ last.val = FirstHeaderValue(src.headers, StrRd)

\* C5: on a frame cut short, after any earlier lazy calls, a cache-backed
\* accessor reads only offsets below frame.size (so nothing raises) and
\* returns either what it returns on the complete frame or its sentinel.
C5_TruncationSafe ==
    (Truncated /\ last.acc \in CachedAccessors) =>
        /\ ~last.raised
        /\ \A o \in last.reads : o >= 0 /\ o < size
        /\ last.val = FullVal(last.acc) \/ last.val = Sentinel(last.acc)

\* A frame cut inside its first argument: the caller name is still read,
\* the first argument is not.
C5_Witness ==
    /\ Truncated
    /\ last.acc = "readCallerNameStr"
    /\ last.val = Some(<<97>>)
    /\ first["readArg1Str"] = Some(Null)
    /\ first["readServiceStr"] # Some(Null)

\* C6 (as claimed): a cache-backed accessor that gives up on a cut-short
\* frame returns its sentinel without raising and leaves a reason string
\* in the cache's lastError.
C6_GiveUpRecordsLastError ==
    (Truncated /\ last.acc \in CachedAccessors
     /\ FullVal(last.acc) # Sentinel(last.acc)
     /\ (last.raised \/ last.val = Sentinel(last.acc))) =>
        /\ ~last.raised
        /\ cache.lastError # Null

(***************************************************************************)
(* Properties of the structured codec.                                     *)
(***************************************************************************)
WriteOk == wres # Null /\ wres[1].err = Null

\* C7: decoding what the writer produced yields the body the writer was
\* given, as the writer left it (its Fragment bit set when more bodies
\* follow, nothing else touched), in every field; the reader consumes
\* exactly the bytes the writer laid out and stops at the writer's offset.
C7_DecodeOfEncodeIsBody ==
    (rres # Null /\ rres[1].input = "sent") =>
        LET r == rres[1].res IN
        /\ r.err = Null
        /\ r.value = Some(body)
        /\ r.offset = wres[1].offset
        /\ r.reads = BodyStart .. (wres[1].offset - 1)
        /\ [body EXCEPT !.flags = body0.flags] = body0
        /\ ~more => body = body0

\* A response with code 7, two headers of the same key and an argument.
C7_Witness ==
    /\ rres # Null
    /\ rres[1].input = "sent"
    /\ kind = "res"
    /\ body.code = 7
    /\ Len(body.headers) = 2
    /\ body.headers[1][1] = body.headers[2][1]
    /\ body.headers[1][2] # body.headers[2][2]
    /\ body.csum.type = 1
    /\ body.args = <<<<104, 233>>>>

\* C8: writing a request whose ttl is 0 fails with InvalidTTL before any
\* byte is written, and reading a request whose ttl bytes are zero fails
\* with InvalidTTL having read nothing beyond the flags and ttl bytes.
C8_ZeroTTLRejected ==
    /\ (kind = "req" /\ wres # Null /\ body0.ttl = 0) =>
           /\ wres[1].err = Some("InvalidTTL")
           /\ w = FreshBuffer(Len(w.buffer))
    /\ (rres # Null /\ rres[1].input = "zero_ttl") =>
           /\ rres[1].res.err = Some("InvalidTTL")
           /\ rres[1].res.reads \subseteq BodyStart .. (BodyStart + 4)

\* A request with headers and an argument received with zero ttl bytes.
C8_Witness ==
    /\ rres # Null
    /\ rres[1].input = "zero_ttl"
    /\ readUInt32BE(rres[1].buf, BodyStart + 1) = 0
    /\ body0.ttl = 258
    /\ Len(body0.headers) = 2
    /\ body0.args # <<>>

\* C9: in a successful write the flags byte is written once, last, at the
\* body's start offset, with the flags the body holds after the args
\* writer ran: the Fragment bit set when more bodies follow, the other
\* bits (and the Fragment bit otherwise) as the body had them.
C9_FlagsWrittenLast ==
    WriteOk =>
        /\ w.log # <<>>
        /\ w.log[Len(w.log)] = BodyStart
        /\ \A i \in 1 .. (Len(w.log) - 1) : w.log[i] # BodyStart
        /\ w.buffer[BodyStart + 1] = body.flags
        /\ body.flags \div 2 = body0.flags \div 2
        /\ body.flags % 2 = (IF more THEN 1 ELSE body0.flags % 2)

\* A request whose Fragment bit was set while its args were written.
C9_Witness ==
    /\ WriteOk
    /\ kind = "req"
    /\ more
    /\ body0.flags = 6
    /\ w.buffer[BodyStart + 1] = 7
    /\ body0.args # <<>>

\* C10: the length callReqLength / callResLength computes for a body is the
\* number of bytes a successful write of that body advances the offset by.
C10_ByteLengthIsWrittenLength ==
    (lenres # Null /\ WriteOk) =>
        /\ lenres[1].err = Null
        /\ lenres[1].length = wres[1].offset - BodyStart

\* A request with a non-ASCII service, two headers, a checksum and an
\* argument, measured and written.
C10_Witness ==
    /\ lenres # Null
    /\ WriteOk
    /\ kind = "req"
    /\ body0.service = <<115, 233>>
    /\ Len(body0.headers) = 2
    /\ body0.csum.type = 1
    /\ body0.args # <<>>

(***************************************************************************)
(* Failure of the structured codec.                                        *)
(***************************************************************************)
WriteFailed == wres # Null /\ wres[1].err # Null

ReadFailed == rres # Null /\ rres[1].res.err # Null

\* C11 (as claimed): a failed structured write leaves the destination
\* buffer as it was before the call, and a failed structured read result
\* carries no partially filled body.
C11_NoPartialStateOnError ==
    /\ WriteFailed => w = FreshBuffer(Len(w.buffer))
    /\ ReadFailed => rres[1].res.value = Null

(***************************************************************************)
(* Properties of the offset cache.                                         *)
(***************************************************************************)

\* C12 (as claimed): when a cache-backed accessor is called twice in
\* succession on a frame, the second call reads no byte of the frame
\* buffer.
C12_SecondCallReadsNothing ==
    [][(last'.acc \in CachedAccessors /\ last'.acc = last.acc)
           => last'.reads = {}]_vars

\* The value and offset slots of the frame cache.
CacheSlots ==
    {"ttlValue", "tracingValue", "serviceStr", "callerNameStr",
     "routingDelegateStr", "arg1Str", "headerStartOffset", "csumStartOffset",
     "cnValueOffset", "rdValueOffset"}

C14_OffsetsWithinFrame ==
    /\ \A s \in {"headerStartOffset", "cnValueOffset", "rdValueOffset"} :
           cache[s] # Null => (cache[s][1] >= 0 /\ cache[s][1] < size)
    /\ cache.csumStartOffset # Null =>
           (cache.csumStartOffset[1] >= 0 /\ cache.csumStartOffset[1] <= size)

\* The accessors that scan the headers.
ScanAccessors == {"readCallerNameStr", "readRoutingDelegateStr", "readArg1Str"}

\* The offsets held in a cache.
Offsets(c) ==
    <<c.headerStartOffset, c.cnValueOffset, c.rdValueOffset, c.csumStartOffset>>

\* C15 (as claimed): when the header scan of a lazy call fails because the
\* frame is cut short, the call leaves headerStartOffset, cnValueOffset,
\* rdValueOffset and csumStartOffset as they were before it.
C15_FailedScanCommitsNothing ==
    [][(last'.acc \in ScanAccessors /\ cache.csumStartOffset = Null
        /\ ~scanAndSkipHeaders(frame).val)
           => Offsets(cache') = Offsets(cache)]_vars

\* C16: cnValueOffset, rdValueOffset and csumStartOffset leave null
\* together (an absent cn or rd is recorded as 0, not left null), and once
\* they are set no call of readCallerNameStr, readRoutingDelegateStr or
\* readArg1Str scans the headers again: none reads the header count byte,
\* which every scan reads first.
C16_ScanCompletesOnce ==
    [][/\ (cache'.cnValueOffset = Null) = (cache'.csumStartOffset = Null)
       /\ (cache'.rdValueOffset = Null) = (cache'.csumStartOffset = Null)
       /\ (cache.csumStartOffset # Null /\ last'.acc \in ScanAccessors)
              => cache.headerStartOffset[1] \notin last'.reads]_vars

\* A frame without a cn header on which the scan completed and each of the
\* three scanning accessors was called afterwards, the caller name twice.
C16_Witness ==
    /\ cache.cnValueOffset = Some(0)
    /\ cache.rdValueOffset # Some(0)
    /\ cache.csumStartOffset # Null
    /\ \A a \in ScanAccessors : first[a] # Null
    /\ last.acc = "readCallerNameStr"
    /\ last.again

(***************************************************************************)
(* Terminal frames.  isFrameTerminal of requests and of responses, called  *)
(* on an encoded frame; kind tells which of the two the frame is, src      *)
(* keeps the flags the body was built with, and last the call's result.    *)
(***************************************************************************)

\* a & b on non-negative integers.
RECURSIVE BitAnd(_, _)
BitAnd(a, b) ==
    IF a = 0 \/ b = 0 THEN 0
    ELSE (a % 2) * (b % 2) + 2 * BitAnd(a \div 2, b \div 2)

\* The number the & operator sees in the value of a read result: the value
\* of a failed read is undefined, which & converts to 0.
ToInt32(res) == IF res.err = Null THEN res.value ELSE 0

readFlags(fr) == UInt8_readFrom(fr.buffer, flagsOffset)

\* isFrameTerminal testing the whole flags byte instead of the Fragment bit.
isFrameTerminalAnyFlag(fr) ==
    Bind(readFlags(fr), LAMBDA flags :
    Bind(BitAnd(ToInt32(flags), 255), LAMBDA frag :
        [val |-> (frag = 0), reads |-> flags.reads]))

\* Returns [val: terminal or not, reads].
isFrameTerminal(fr) ==
    Bind(readFlags(fr), LAMBDA flags :
    Bind(BitAnd(ToInt32(flags), FragmentFlag), LAMBDA frag :
        [val |-> (frag = 0), reads |-> flags.reads]))

CallResponse_flagsOffset == FrameOverhead

CallResponse_readFlags(fr) == UInt8_readFrom(fr.buffer, CallResponse_flagsOffset)

CallResponse_isFrameTerminal(fr) ==
    Bind(CallResponse_readFlags(fr), LAMBDA flags :
    Bind(BitAnd(ToInt32(flags), FragmentFlag), LAMBDA frag :
        [val |-> (frag = 0), reads |-> flags.reads]))

\* Every flags byte.
AllFlags == 0 .. 255

\* The bytes of a response frame carrying body, as RequestFrame; more tells
\* the writer that more bodies follow.
EncodedFrame(k, b, m) ==
    Bind(IF k = "req"
         THEN writeCallReqInto(b, m, FreshBuffer(FrameOverhead + MaxBody), FrameOverhead)
         ELSE writeCallResInto(b, m, FreshBuffer(FrameOverhead + MaxBody), FrameOverhead),
         LAMBDA r :
        FrameHeader(r.offset, IF k = "req" THEN 3 ELSE 4)
        \o Slice(r.w.buffer, FrameOverhead, r.offset))

InitFlags ==
    \E k \in {"req", "res"}, f \in AllFlags, m \in BOOLEAN :
        \E F \in {EncodedFrame(k,
                      IF k = "req"
                      THEN CallRequest(f, 258, SampleTracing, <<115, 233>>, <<>>,
                                       Checksum(ChecksumNone, 0), <<<<104, 233>>>>)
                      ELSE CallResponse(f, 1, SampleTracing, <<>>,
                                        Checksum(ChecksumNone, 0), <<<<104, 233>>>>),
                      m)} :
            /\ kind = k
            /\ more = m
            /\ src = [NewCallRequest EXCEPT !.flags = f]
            /\ full = F
            /\ buffer = F
            /\ size = Len(F)
            /\ cache = EmptyCache
            /\ first = [a \in Accessors |-> Null]
            /\ last = NoLast
            /\ body = NewCallRequest /\ body0 = NewCallRequest
            /\ w = [buffer |-> <<>>, log |-> <<>>]
            /\ lenres = Null /\ wres = Null /\ rres = Null
            /\ PermIdle

TerminalCall(r) ==
    /\ last' = [acc |-> "isFrameTerminal", val |-> r.val, reads |-> r.reads,
                raised |-> FALSE, again |-> last.acc # "none"]
    /\ UNCHANGED <<buffer, size, cache, src, full, first>>
    /\ UNCHANGED <<codecVars, permVars>>

ReqIsFrameTerminal ==
    /\ kind = "req"
    /\ \E r \in {isFrameTerminal(frame)} : TerminalCall(r)

ResIsFrameTerminal ==
    /\ kind = "res"
    /\ \E r \in {CallResponse_isFrameTerminal(frame)} : TerminalCall(r)

NextFlags ==
    \/ ReqIsFrameTerminal
    \/ ResIsFrameTerminal

SpecFlags == InitFlags /\ [][NextFlags]_vars

\* C17: for request and response frames alike, isFrameTerminal returns
\* true exactly when the flags byte of the frame is even (bit 0, Fragment,
\* clear), whatever the other seven bits; a frame written with more bodies
\* to follow, or from a body whose Fragment bit was set, is not terminal.
C17_TerminalIffFragmentClear ==
    last.acc = "isFrameTerminal" =>
        /\ last.val = (buffer[flagsOffset + 1] % 2 = 0)
        /\ (more \/ src.flags % 2 = 1) => ~last.val
        /\ buffer[flagsOffset + 1] \div 2 = src.flags \div 2

\* A response frame with every other flag bit set and Fragment clear is
\* reported terminal.
C17_Witness ==
    /\ last.acc = "isFrameTerminal"
    /\ kind = "res"
    /\ buffer[flagsOffset + 1] = 254
    /\ last.val

\* What accessor acc returns on the frame as it is, when the frame's cache is
\* fresh and empty.
FreshVal(acc) ==
    CallAccessor(acc, [buffer |-> buffer, size |-> size, cache |-> EmptyCache]).val

\* C18: the offset cache is transparent: whatever lazy accessors were called
\* on a frame before, each cache-backed accessor returns the value it returns
\* when it is the first call on the frame with a fresh, empty cache.
C18_CacheTransparent ==
    last.acc \in CachedAccessors => last.val = FreshVal(last.acc)

\* A header accessor called for the first time after readHeaders and
\* readArg1Str filled the offset cache, on a cut-short frame that still
\* holds its headers.
C18_Witness ==
    /\ Truncated
    /\ last.acc = "readCallerNameStr"
    /\ ~last.again
    /\ last.val # Null
    /\ first["readHeaders"] # Null
    /\ first["readArg1Str"] # Null
    /\ cache.csumStartOffset # Null

(***************************************************************************)
(* src/hyperbahn/permissions_cache.js.  PermissionsCache extends the       *)
(* lru-cache package's LRUCache; get, set and reset are that package's.    *)
(***************************************************************************)
BUCKET_RESET_DURATION == 1000

NUM_TOKENS == 100

\* Index of key in the entries, 0 when the cache has no such key.
LRU_index(lru, key) ==
    IF \E i \in 1 .. Len(lru) : lru[i].key = key
    THEN CHOOSE i \in 1 .. Len(lru) : lru[i].key = key
    ELSE 0

LRU_without(lru, i) == SubSeq(lru, 1, i - 1) \o SubSeq(lru, i + 1, Len(lru))

LRU_has(lru, key) == LRU_index(lru, key) # 0

\* The value of key, a hit making the entry the most recently used;
\* undefined (null here) on a miss.
LRU_get(self, key) ==
    Bind(LRU_index(self.lru, key), LAMBDA i :
        IF i = 0 THEN [value |-> Null, self |-> self]
        ELSE [value |-> Some(self.lru[i].value),
              self |-> [self EXCEPT !.lru = Append(LRU_without(self.lru, i), self.lru[i])]])

\* Drop the least recently used entries until at most max are left.
RECURSIVE LRU_trim(_, _)
LRU_trim(lru, max) ==
    IF Len(lru) > max THEN LRU_trim(Tail(lru), max) ELSE lru

\* Store value under key as the most recently used entry.
LRU_set(self, key, value) ==
    Bind(LRU_index(self.lru, key), LAMBDA i :
    Bind(IF i = 0 THEN self.lru ELSE LRU_without(self.lru, i), LAMBDA rest :
        [self EXCEPT !.lru = LRU_trim(Append(rest, [key |-> key, value |-> value]),
                                      self.max)]))

LRU_reset(self) == [self EXCEPT !.lru = <<>>]

\* A new object: the constructor passes options to LRUCache.
PermissionsCache(options) ==
    [max |-> options.max, lru |-> <<>>, bucketIntervals |-> <<>>]

createCallsKey(caller, callee) == caller \o "_" \o callee

\* The closure initializeTokenBucket creates for key.
resetTokens(self, key) == LRU_set(self, key, NUM_TOKENS)

\* The handle of an interval that calls resetTokens for key.
setInterval(key, duration) == [key |-> key, duration |-> duration, live |-> TRUE]

clearInterval(handle) == [handle EXCEPT !.live = FALSE]

initializeTokenBucket(self, key) ==
    Bind(resetTokens(self, key), LAMBDA s1 :
        [s1 EXCEPT !.bucketIntervals =
            Append(@, setInterval(key, BUCKET_RESET_DURATION))])

\* increment storing the count it read.
incrementStoresTokensRead(self, stat) ==
    IF stat.name = "inbound.calls.recvd" /\ stat.type = "counter"
    THEN Bind(createCallsKey(stat.tags["calling-service"], stat.tags["service"]),
              LAMBDA key :
         Bind(LRU_get(self, key), LAMBDA g :
             IF g.value = Null
             THEN Bind(initializeTokenBucket(g.self, key), LAMBDA s2 :
                  Bind(LRU_get(s2, key), LAMBDA g2 :
                      LRU_set(g2.self, key, g2.value[1])))
             ELSE LRU_set(g.self, key, g.value[1])))
    ELSE self

increment(self, stat) ==
    IF stat.name = "inbound.calls.recvd" /\ stat.type = "counter"
    THEN Bind(createCallsKey(stat.tags["calling-service"], stat.tags["service"]),
              LAMBDA key :
         Bind(LRU_get(self, key), LAMBDA g :
             IF g.value = Null
             THEN Bind(initializeTokenBucket(g.self, key), LAMBDA s2 :
                  Bind(LRU_get(s2, key), LAMBDA g2 :
                      LRU_set(g2.self, key, g2.value[1] - 1)))
             ELSE LRU_set(g.self, key, g.value[1] - 1)))
    ELSE self

\* clearBuckets emptying the cache without clearing the intervals.
clearBucketsKeepsIntervals(self) ==
    LRU_reset(self)

clearBuckets(self) ==
    LRU_reset([self EXCEPT !.bucketIntervals =
                   [i \in 1 .. Len(@) |-> clearInterval(@[i])]])

(***************************************************************************)
(* One permissions cache under stat events, interval ticks and             *)
(* clearBuckets.                                                           *)
(***************************************************************************)
\* Most inbound calls observed for one key between two resets.
MaxObs == 3

\* Most intervals one cache sets.
MaxIntervals == 3

\* Largest bound of the LRU cache.
MaxKeys == 2

Callers == {"a", "a_b"}

Callees == {"c", "b_c"}

Tags(caller, callee) == [t \in {"calling-service", "service"} |->
                            IF t = "service" THEN callee ELSE caller]

InboundCalls ==
    {[name |-> "inbound.calls.recvd", type |-> "counter", tags |-> Tags(cr, ce)] :
        cr \in Callers, ce \in Callees}

OtherStats ==
    {[name |-> "inbound.calls.recvd", type |-> "timing", tags |-> Tags("a", "c")],
     [name |-> "outbound.calls.sent", type |-> "counter", tags |-> Tags("a", "c")]}

Stats == InboundCalls \cup OtherStats

IsInboundCall(stat) == stat.name = "inbound.calls.recvd" /\ stat.type = "counter"

StatKey(stat) == createCallsKey(stat.tags["calling-service"], stat.tags["service"])

Keys == {StatKey(stat) : stat \in InboundCalls}

\* The count of observations since the last reset, for the keys of the cache.
ObsAfter(self, count) ==
    [k \in {self.lru[i].key : i \in 1 .. Len(self.lru)} |->
        IF k \in DOMAIN count THEN count[k] ELSE 0]

InitPerm ==
    /\ LazyIdle
    /\ CodecIdle
    /\ \E max \in 1 .. MaxKeys : permissions = PermissionsCache([max |-> max])
    /\ observed = {}
    /\ obs = <<>>
    /\ plast = NoOp

\* The channel emits a stat: the listener the constructor added runs increment.
StatEvent ==
    \E stat \in Stats :
        /\ IsInboundCall(stat) =>
               IF LRU_has(permissions.lru, StatKey(stat))
               THEN obs[StatKey(stat)] < MaxObs
               ELSE Len(permissions.bucketIntervals) < MaxIntervals
        /\ \E s \in {increment(permissions, stat)} :
            /\ permissions' = s
            /\ observed' = IF IsInboundCall(stat) THEN observed \cup {StatKey(stat)}
                           ELSE observed
            /\ obs' = IF IsInboundCall(stat)
                      THEN ObsAfter(s, [k \in {StatKey(stat)} |->
                                IF LRU_has(permissions.lru, k) THEN obs[k] + 1 ELSE 1]
                                @@ obs)
                      ELSE obs
            /\ plast' = [op |-> "increment", stat |-> stat,
                         key |-> IF IsInboundCall(stat) THEN StatKey(stat) ELSE ""]
        /\ UNCHANGED <<lazyVars, codecVars>>

\* A live interval fires: its resetTokens runs.
Tick ==
    \E i \in 1 .. Len(permissions.bucketIntervals) :
        /\ permissions.bucketIntervals[i].live
        /\ \E key \in {permissions.bucketIntervals[i].key} :
           \E s \in {resetTokens(permissions, key)} :
            /\ permissions' = s
            /\ obs' = ObsAfter(s, [k \in {key} |-> 0] @@ obs)
            /\ plast' = [op |-> "tick", stat |-> NoStat, key |-> key]
        /\ UNCHANGED <<observed, lazyVars, codecVars>>

ClearBuckets ==
    /\ \E s \in {clearBuckets(permissions)} :
        /\ permissions' = s
        /\ obs' = ObsAfter(s, obs)
    /\ plast' = [op |-> "clearBuckets", stat |-> NoStat, key |-> ""]
    /\ UNCHANGED <<observed, lazyVars, codecVars>>

NextPerm ==
    \/ StatEvent
    \/ Tick
    \/ ClearBuckets

SpecPerm == InitPerm /\ [][NextPerm]_vars

\* The token count stored for key, null when the cache has no such key.
Tokens(self, key) ==
    IF LRU_has(self.lru, key) THEN Some(self.lru[LRU_index(self.lru, key)].value)
    ELSE Null

\* C19: every key of the permissions cache holds NUM_TOKENS minus the number
\* of inbound-call counter stats observed for the key since its last reset
\* (its bucket's initialization or a tick of a reset interval): the first
\* observation leaves 99, every further one takes exactly 1, every tick
\* restores 100, and a stat of another name or type changes nothing.
C19_TokensCountObservations ==
    [][/\ \A k \in Keys : LRU_has(permissions'.lru, k) =>
              Tokens(permissions', k) = Some(NUM_TOKENS - obs'[k])
       /\ (plast'.op = "increment" /\ plast'.key # "") =>
              Tokens(permissions', plast'.key) =
                  IF LRU_has(permissions.lru, plast'.key)
                  THEN Some(Tokens(permissions, plast'.key)[1] - 1)
                  ELSE Some(99)
       /\ plast'.op = "tick" => Tokens(permissions', plast'.key) = Some(100)
       /\ (plast'.op = "increment" /\ plast'.key = "") =>
              permissions' = permissions]_vars

\* A key that was evicted, restored by a tick of its interval and then
\* observed three times.
C19_Witness ==
    /\ permissions.max = 1
    /\ Len(permissions.bucketIntervals) = 2
    /\ plast.op = "increment"
    /\ plast.key = "a_b_c"
    /\ Tokens(permissions, "a_b_c") = Some(97)
    /\ observed = {"a_c", "a_b_c"}
    /\ permissions.bucketIntervals[1].key = "a_b_c"

\* The intervals of the cache that are live and reset key.
LiveIntervals(self, key) ==
    {i \in 1 .. Len(self.bucketIntervals) :
        self.bucketIntervals[i].live /\ self.bucketIntervals[i].key = key}

\* C20 (as claimed): whatever stats were observed, intervals fired and
\* entries evicted, at most one live reset interval exists for any key, so
\* there are never more live intervals than distinct keys observed.
C20_OneIntervalPerKey ==
    /\ \A k \in Keys : Cardinality(LiveIntervals(permissions, k)) <= 1
    /\ Cardinality({i \in 1 .. Len(permissions.bucketIntervals) :
                       permissions.bucketIntervals[i].live})
           <= Cardinality(observed)

\* No interval of the cache is live.
AllCancelled(self) ==
    \A i \in 1 .. Len(self.bucketIntervals) : ~self.bucketIntervals[i].live

\* C21: when clearBuckets returns the cache is empty and every interval set
\* before the call is cancelled; a cancelled interval stays cancelled and
\* only a live interval ever fires, so no interval set before clearBuckets
\* writes a token count again, and while no interval has been set since, the
\* cache stays empty until the next inbound-call counter stat is observed.
C21_ClearBucketsCancelsTimers ==
    [][/\ plast'.op = "clearBuckets" =>
              (permissions'.lru = <<>> /\ AllCancelled(permissions'))
       /\ \A i \in 1 .. Len(permissions.bucketIntervals) :
              ~permissions.bucketIntervals[i].live =>
                  /\ i <= Len(permissions'.bucketIntervals)
                  /\ permissions'.bucketIntervals[i] = permissions.bucketIntervals[i]
       /\ plast'.op = "tick" => LiveIntervals(permissions, plast'.key) # {}
       /\ (AllCancelled(permissions) /\ permissions.lru = <<>>) =>
              \/ permissions'.lru = <<>>
              \/ (plast'.op = "increment" /\ plast'.key # "")]_vars

\* clearBuckets has just returned on a cache that had set three intervals,
\* two of them for one key, which was observed again after an earlier
\* clearBuckets.
C21_Witness ==
    /\ plast.op = "clearBuckets"
    /\ Len(permissions.bucketIntervals) = 3
    /\ permissions.bucketIntervals[1].key = "a_c"
    /\ permissions.bucketIntervals[2].key = "a_c"
    /\ permissions.bucketIntervals[3].key = "a_b_c"
    /\ permissions.max = 2
    /\ permissions.lru = <<>>

\* The (calling-service, service) pair of a stat.
StatPair(stat) == <<stat.tags["calling-service"], stat.tags["service"]>>

Pairs == Callers \X Callees

\* C22 (as claimed): createCallsKey gives distinct (calling-service,
\* service) pairs distinct keys, so observing an inbound call of one pair
\* never lowers the token count kept for a different pair.
C22_BucketsPerPair ==
    [][(plast'.op = "increment" /\ plast'.key # "") =>
           \A p \in Pairs : p # StatPair(plast'.stat) =>
               /\ createCallsKey(p[1], p[2]) # plast'.key
               /\ (/\ Tokens(permissions, createCallsKey(p[1], p[2])) # Null
                   /\ Tokens(permissions', createCallsKey(p[1], p[2])) # Null)
                      => Tokens(permissions', createCallsKey(p[1], p[2]))[1]
                             >= Tokens(permissions, createCallsKey(p[1], p[2]))[1]]_vars

====
